---- MODULE Spec2Model ----
(***************************************************************************)
(* The ledger engine of crypto_wallet_simulator: the entities of           *)
(* domain/model.py, the in-memory store of adapters/persistence.py, the    *)
(* proof-of-work adapter of adapters/consensus.py and the services of      *)
(* service_layer/services.py.                                              *)
(*                                                                         *)
(* Strings are sequences of one-character strings, so that formatting,     *)
(* concatenation and str.startswith are computed as the code computes      *)
(* them.  SHA-256 is idealised: the digest of s is two pseudo-random hex   *)
(* characters computed from s, followed by s itself, which makes the       *)
(* digest collision-free while its leading characters still vary with      *)
(* every character of the input.                                           *)
(***************************************************************************)
EXTENDS Integers, Sequences, FiniteSets, TLC

VARIABLES
    blocks,      \* InMemoryLedgerRepository.blocks: the list of appended blocks
    utxo_set,    \* InMemoryLedgerRepository.utxo_set: insertion-ordered dict, as a list of UTXOs
    difficulty,  \* ProofOfWorkAdapter.difficulty
    txs,         \* the Transaction objects the callers hold, as create_transaction returned them
    result,      \* what the last service call returned or raised
    writer,      \* the position of a mine_block / stake_block call that runs beside a reader
    obs          \* what the concurrent reader saw last

vars == <<blocks, utxo_set, difficulty, txs, result, writer, obs>>

-----------------------------------------------------------------------------
(* Bounds of the model *)

MaxBlocks == 2      \* blocks appended to the store
MaxTxs == 2         \* transactions created by create_transaction
MaxNonce == 600     \* nonces a sealing search may try before the model gives the call up
MaxLeaves == 4      \* transactions in a block whose Merkle root is asked for on its own

-----------------------------------------------------------------------------
(* Strings *)

HexDigits == <<"0", "1", "2", "3", "4", "5", "6", "7", "8", "9", "a", "b", "c", "d", "e", "f">>

Alphabet == HexDigits \o <<":", "|", ".", "g", "v">>

CodeOf == [c \in {Alphabet[i] : i \in 1..Len(Alphabet)} |->
              CHOOSE i \in 1..Len(Alphabet) : Alphabet[i] = c]

RECURSIVE Str(_)
\* str(n) of an integer n >= 0
Str(n) == IF n < 10 THEN <<HexDigits[n + 1]>> ELSE Str(n \div 10) \o <<HexDigits[(n % 10) + 1]>>

\* str(x) of a float x with an integral value: amounts are floats (model.py:30, :50)
StrFloat(n) == Str(n) \o <<".", "0">>

\* '0' * n
Zeros(n) == [i \in 1..n |-> "0"]

\* s.startswith(prefix)
StartsWith(s, prefix) == Len(s) >= Len(prefix) /\ SubSeq(s, 1, Len(prefix)) = prefix

RECURSIVE Join(_, _)
\* sep.join(parts)
Join(sep, parts) ==
    IF parts = <<>> THEN <<>>
    ELSE IF Len(parts) = 1 THEN parts[1]
    ELSE parts[1] \o sep \o Join(sep, Tail(parts))

-----------------------------------------------------------------------------
(* hashlib.sha256 *)

\* The running state x of the digest is a number; absorbing a string maps x to
\* (x * mul + add) % 256, and absorbing s and then t composes the two maps.
Absorb(l, r) == [mul |-> (l.mul * r.mul) % 256, add |-> (l.add * r.mul + r.add) % 256]

RECURSIVE Mix(_, _, _)
\* what absorbing the characters s[lo..hi] does, computed by halves
Mix(s, lo, hi) ==
    IF lo > hi THEN [mul |-> 1, add |-> 0]
    ELSE IF lo = hi THEN [mul |-> 31, add |-> CodeOf[s[lo]]]
    ELSE Absorb(Mix(s, lo, (lo + hi) \div 2), Mix(s, ((lo + hi) \div 2) + 1, hi))

\* the two leading characters of the hex digest once m has been absorbed
DigestHead(m) ==
    LET x == (7 * m.mul + m.add) % 256
    IN  <<HexDigits[(x \div 16) + 1], HexDigits[(x % 16) + 1]>>

\* hashlib.sha256(s.encode()).hexdigest()
Sha256(s) == DigestHead(Mix(s, 1, Len(s))) \o s

-----------------------------------------------------------------------------
(* domain/model.py: the entities and their hashes *)

None == <<"N", "o", "n", "e">>

\* TxIn.reference_key, and the key the store and the services format the same way
UtxoKey(tx_id, output_index) == tx_id \o <<":">> \o Str(output_index)

TxIn(prev_tx_id, output_index) == [prev_tx_id |-> prev_tx_id, output_index |-> output_index]

TxOut(amount, address) == [amount |-> amount, address |-> address]

UTXO(tx_id, output_index, amount, owner_address) ==
    [tx_id |-> tx_id, output_index |-> output_index, amount |-> amount,
     owner_address |-> owner_address]

\* Transaction.calculate_hash
TxHash(tx) ==
    LET ins == [i \in 1..Len(tx.inputs) |->
                   UtxoKey(tx.inputs[i].prev_tx_id, tx.inputs[i].output_index)]
        outs == [i \in 1..Len(tx.outputs) |->
                    StrFloat(tx.outputs[i].amount) \o <<":">> \o tx.outputs[i].address]
    IN  Sha256(Join(<<"|">>, ins \o outs))

\* hashlib.sha256((secret + tx_hash).encode()).digest()
Signature(secret, tx_hash) == Sha256(secret \o tx_hash)

\* AddSignature that keeps a signature already recorded at the index (dict.setdefault)
AddSignatureKeepRecorded(signatures, input_index, signature) ==
    [i \in (DOMAIN signatures) \cup {input_index} |->
        IF i \in DOMAIN signatures THEN signatures[i] ELSE signature]

\* Transaction.add_signature: signatures is a dict keyed by the 0-based input index
AddSignature(signatures, input_index, signature) ==
    [i \in (DOMAIN signatures) \cup {input_index} |->
        IF i = input_index THEN signature ELSE signatures[i]]

\* what key_lookup answers for one input.  A callback answers the same for every input
\* (it returns one secret, returns None, or raises), or it answers by the UTXO key the
\* input names (kind "by_key")
Answer(lookup, inp) ==
    IF lookup.kind = "by_key" THEN lookup.answer[UtxoKey(inp.prev_tx_id, inp.output_index)]
    ELSE lookup

\* key_lookup(inp), when it returns
KeyLookup(lookup, inp) ==
    IF Answer(lookup, inp).kind = "secret" THEN Answer(lookup, inp).secret ELSE None

Returns(value) == [raised |-> FALSE, value |-> value]

Raises(exc) == [raised |-> TRUE, exc |-> exc]

RECURSIVE VerifyFromSkipUnsigned(_, _, _)
\* VerifyFrom with an input that has no recorded signature skipped (continue) instead
\* of failing the verification
VerifyFromSkipUnsigned(tx, lookup, idx) ==
    IF idx >= Len(tx.inputs) THEN Returns(TRUE)
    ELSE IF idx \notin DOMAIN tx.signatures THEN VerifyFromSkipUnsigned(tx, lookup, idx + 1)
    ELSE IF Answer(lookup, tx.inputs[idx + 1]).kind = "raises"
         THEN Raises([type |-> "LookupError"])
    ELSE IF KeyLookup(lookup, tx.inputs[idx + 1]) = None THEN Returns(FALSE)
    ELSE IF Signature(KeyLookup(lookup, tx.inputs[idx + 1]), TxHash(tx)) # tx.signatures[idx]
         THEN Returns(FALSE)
    ELSE VerifyFromSkipUnsigned(tx, lookup, idx + 1)

RECURSIVE VerifyFrom(_, _, _)
\* the loop of Transaction.verify from the 0-based input index idx on
VerifyFrom(tx, lookup, idx) ==
    IF idx >= Len(tx.inputs) THEN Returns(TRUE)
    ELSE IF idx \notin DOMAIN tx.signatures THEN Returns(FALSE)
    ELSE IF Answer(lookup, tx.inputs[idx + 1]).kind = "raises"
         THEN Raises([type |-> "LookupError"])
    ELSE IF KeyLookup(lookup, tx.inputs[idx + 1]) = None THEN Returns(FALSE)
    ELSE IF Signature(KeyLookup(lookup, tx.inputs[idx + 1]), TxHash(tx)) # tx.signatures[idx]
         THEN Returns(FALSE)
    ELSE VerifyFrom(tx, lookup, idx + 1)

\* Transaction.verify
TxVerify(tx, lookup) == VerifyFrom(tx, lookup, 0)

\* BlockHeader.calculate_hash
HeaderHash(h) ==
    Sha256(Join(<<":">>, <<Str(h.version), h.prev_hash, h.merkle_root, Str(h.timestamp),
                          Str(h.nonce), Str(h.difficulty), h.validator_id>>))

\* MerkleLevel with the right element of a pair hashed in the place of the left one too
\* (tx_hashes[i+1] + tx_hashes[i+1])
MerkleLevelRightOnly(tx_hashes) ==
    LET even == IF Len(tx_hashes) % 2 = 1
                THEN Append(tx_hashes, tx_hashes[Len(tx_hashes)])
                ELSE tx_hashes
    IN  [i \in 1..(Len(even) \div 2) |-> Sha256(even[2 * i] \o even[2 * i])]

\* one pass of the while loop of Block.calculate_merkle_root
MerkleLevel(tx_hashes) ==
    LET even == IF Len(tx_hashes) % 2 = 1
                THEN Append(tx_hashes, tx_hashes[Len(tx_hashes)])
                ELSE tx_hashes
    IN  [i \in 1..(Len(even) \div 2) |-> Sha256(even[2 * i - 1] \o even[2 * i])]

RECURSIVE MerkleFold(_)
MerkleFold(tx_hashes) ==
    IF Len(tx_hashes) > 1 THEN MerkleFold(MerkleLevel(tx_hashes)) ELSE tx_hashes[1]

\* Block.calculate_merkle_root
MerkleRoot(transactions) ==
    IF transactions = <<>> THEN Sha256(<<>>)
    ELSE MerkleFold([i \in 1..Len(transactions) |-> TxHash(transactions[i])])

\* Block.verify
BlockVerify(block) == block.header.merkle_root = MerkleRoot(block.transactions)

-----------------------------------------------------------------------------
(* adapters/persistence.py: InMemoryLedgerRepository *)

\* the None that get_block and get_latest_block return
NoBlock == [none |-> TRUE]

\* get_block(height)
GetBlock(bl, height) == IF 0 <= height /\ height < Len(bl) THEN bl[height + 1] ELSE NoBlock

\* get_latest_block()
GetLatestBlock(bl) == IF bl = <<>> THEN NoBlock ELSE bl[Len(bl)]

\* AddBlock with the block put at height 0 (list.insert(0, block))
AddBlockAtFront(bl, block) == <<block>> \o bl

\* add_block(block)
AddBlock(bl, block) == Append(bl, block)

\* the keys of the utxo_set dict, in insertion order
Keys(us) == [i \in 1..Len(us) |-> us[i].key]

KeySet(us) == {us[i].key : i \in 1..Len(us)}

\* utxo_set[key]
Lookup(us, key) == us[CHOOSE i \in 1..Len(us) : us[i].key = key].utxo

\* add_utxo(utxo): dict assignment keeps the place of a key that is present
AddUtxo(us, utxo) ==
    LET key == UtxoKey(utxo.tx_id, utxo.output_index)
    IN  IF key \in KeySet(us)
        THEN [i \in 1..Len(us) |-> IF us[i].key = key THEN [key |-> key, utxo |-> utxo] ELSE us[i]]
        ELSE Append(us, [key |-> key, utxo |-> utxo])

\* remove_utxo(utxo_key)
RemoveUtxo(us, utxo_key) ==
    IF utxo_key \in KeySet(us) THEN SelectSeq(us, LAMBDA e : e.key # utxo_key) ELSE us

\* all_utxos()
AllUtxos(us) == [i \in 1..Len(us) |-> us[i].utxo]

-----------------------------------------------------------------------------
(* adapters/consensus.py: ProofOfWorkAdapter *)

Max(a, b) == IF a >= b THEN a ELSE b

\* target = '0' * max(1, self.difficulty)
PowTarget(d) == Zeros(Max(1, d))

\* the digest the loop computes for one nonce
PowDigest(header, nonce) ==
    Sha256(header.prev_hash \o header.merkle_root \o Str(nonce) \o Str(header.timestamp))

\* PowDigest(header, nonce).startswith(target), with prev_hash and merkle_root, which
\* open the hashed string for every nonce, absorbed once (absorbed) and passed along
PowHit(header, absorbed, target, nonce) ==
    LET tail == Str(nonce) \o Str(header.timestamp)
        head == DigestHead(Absorb(absorbed, Mix(tail, 1, Len(tail))))
    IN  IF Len(target) <= Len(head) THEN StartsWith(head, target)
        ELSE StartsWith(PowDigest(header, nonce), target)

RECURSIVE PowSearch(_, _, _, _)
\* the while loop of mine from nonce on, sixteen nonces at a time: the first nonce that
\* hits, or -1 when the model gives the search up after MaxNonce
PowSearch(header, absorbed, target, nonce) ==
    LET upto == IF nonce + 15 < MaxNonce THEN nonce + 15 ELSE MaxNonce
        hits == {n \in nonce..upto : PowHit(header, absorbed, target, n)}
    IN  IF hits # {} THEN CHOOSE n \in hits : \A m \in hits : n <= m
        ELSE IF upto >= MaxNonce THEN -1
        ELSE PowSearch(header, absorbed, target, upto + 1)

\* PowMine with the search started at nonce 1
PowMineFromOne(header, d) ==
    LET opening == header.prev_hash \o header.merkle_root
        nonce == PowSearch(header, Mix(opening, 1, Len(opening)), PowTarget(d), 1)
    IN  IF nonce < 0 THEN [found |-> FALSE]
        ELSE [found |-> TRUE,
              header |-> [header EXCEPT !.nonce = nonce],
              digest |-> PowDigest(header, nonce)]

\* ProofOfWorkAdapter.mine: the header with its nonce written, and the digest returned
PowMine(header, d) ==
    LET opening == header.prev_hash \o header.merkle_root
        nonce == PowSearch(header, Mix(opening, 1, Len(opening)), PowTarget(d), 0)
    IN  IF nonce < 0 THEN [found |-> FALSE]
        ELSE [found |-> TRUE,
              header |-> [header EXCEPT !.nonce = nonce],
              digest |-> PowDigest(header, nonce)]

-----------------------------------------------------------------------------
(* service_layer/services.py: TransactionService *)

RECURSIVE SumAmounts(_)
\* sum(o.amount for o in outputs), and the same over UTXOs
SumAmounts(items) == IF items = <<>> THEN 0 ELSE items[1].amount + SumAmounts(Tail(items))

\* OwnedUtxos without the owner filter: every UTXO of the store
OwnedUtxosAnyOwner(us, address) == AllUtxos(us)

\* [u for u in self.repo.all_utxos() if u.owner_address == from_address]
OwnedUtxos(us, address) == SelectSeq(AllUtxos(us), LAMBDA u : u.owner_address = address)

RECURSIVE AccumulateNoBreak(_, _, _, _, _)
\* Accumulate without the break: every UTXO of the sender becomes an input
AccumulateNoBreak(utxos, required, i, inputs, total) ==
    IF i > Len(utxos) THEN [inputs |-> inputs, total |-> total]
    ELSE AccumulateNoBreak(utxos, required, i + 1,
                           Append(inputs, TxIn(utxos[i].tx_id, utxos[i].output_index)),
                           total + utxos[i].amount)

RECURSIVE Accumulate(_, _, _, _, _)
\* the for loop of create_transaction over utxos[i..]: the inputs and the total it ends with
Accumulate(utxos, required, i, inputs, total) ==
    IF i > Len(utxos) THEN [inputs |-> inputs, total |-> total]
    ELSE LET inputs2 == Append(inputs, TxIn(utxos[i].tx_id, utxos[i].output_index))
             total2 == total + utxos[i].amount
         IN  IF total2 >= required THEN [inputs |-> inputs2, total |-> total2]
             ELSE Accumulate(utxos, required, i + 1, inputs2, total2)

InsufficientFundsException(address, required, available) ==
    [type |-> "InsufficientFundsException", address |-> address, required |-> required,
     available |-> available]

\* CreateTransactionCall with the second raise reporting available=0, like the first
CreateTransactionCallZeroAvailable(us, from_address, outputs) ==
    LET utxos == OwnedUtxos(us, from_address)
        required == SumAmounts(outputs)
        acc == Accumulate(utxos, required, 1, <<>>, 0)
        tx == [tx_id |-> None, inputs |-> acc.inputs, outputs |-> outputs, signatures |-> <<>>]
    IN  IF utxos = <<>> \/ acc.total < required
        THEN Raises(InsufficientFundsException(from_address, required, 0))
        ELSE Returns([tx EXCEPT !.tx_id = TxHash(tx)])

\* TransactionService.create_transaction
CreateTransactionCall(us, from_address, outputs) ==
    LET utxos == OwnedUtxos(us, from_address)
        required == SumAmounts(outputs)
        acc == Accumulate(utxos, required, 1, <<>>, 0)
        tx == [tx_id |-> None, inputs |-> acc.inputs, outputs |-> outputs, signatures |-> <<>>]
    IN  IF utxos = <<>> THEN Raises(InsufficientFundsException(from_address, required, 0))
        ELSE IF acc.total < required
             THEN Raises(InsufficientFundsException(from_address, required, acc.total))
        ELSE Returns([tx EXCEPT !.tx_id = TxHash(tx)])

RECURSIVE SignFrom(_, _, _)
\* the for loop of sign_transaction from the 0-based input index idx on
SignFrom(wallet_priv, tx, idx) ==
    IF idx >= Len(tx.inputs) THEN tx
    ELSE SignFrom(wallet_priv,
                  [tx EXCEPT !.signatures =
                      AddSignature(tx.signatures, idx, Signature(wallet_priv, TxHash(tx)))],
                  idx + 1)

\* TransactionService.sign_transaction: the transaction object after the call
SignTransactionCall(wallet_priv, tx) == SignFrom(wallet_priv, tx, 0)

\* TransactionService.verify_transaction
VerifyTransactionCall(tx, lookup) ==
    LET r == TxVerify(tx, lookup)
    IN  IF r.raised THEN Raises([type |-> "InvalidTransactionException", transaction |-> tx])
        ELSE r

-----------------------------------------------------------------------------
(* service_layer/services.py: MiningService and StakingService *)

\* PrevHash with the placeholder of the standalone stake adapter (consensus.py:31) for
\* every block
PrevHashZeroFilled(bl) == Zeros(64)

\* prev.header.calculate_hash() if prev else "0" * 64
PrevHash(bl) ==
    IF GetLatestBlock(bl) # NoBlock THEN HeaderHash(GetLatestBlock(bl).header) ELSE Zeros(64)

\* CandidateBlock without "block.header.merkle_root = block.calculate_merkle_root()"
CandidateBlockBlankRoot(bl, d, transactions, validator, timestamp) ==
    [header |-> [version |-> 1, prev_hash |-> PrevHash(bl), merkle_root |-> <<>>,
                 timestamp |-> timestamp, nonce |-> 0, difficulty |-> d,
                 validator_id |-> validator],
     transactions |-> transactions]

\* the block built before sealing: the header with its Merkle root filled in
\* (transactions: the Transaction objects of the list passed in)
CandidateBlock(bl, d, transactions, validator, timestamp) ==
    LET header == [version |-> 1, prev_hash |-> PrevHash(bl), merkle_root |-> <<>>,
                   timestamp |-> timestamp, nonce |-> 0, difficulty |-> d,
                   validator_id |-> validator]
        block == [header |-> header, transactions |-> transactions]
    IN  [block EXCEPT !.header.merkle_root = MerkleRoot(block.transactions)]

RECURSIVE RemoveInputs(_, _, _)
\* for inp in tx.inputs: self.repo.remove_utxo(...), from the input at position i on
RemoveInputs(us, tx, i) ==
    IF i > Len(tx.inputs) THEN us
    ELSE RemoveInputs(RemoveUtxo(us, UtxoKey(tx.inputs[i].prev_tx_id, tx.inputs[i].output_index)),
                      tx, i + 1)

RECURSIVE AddOutputs(_, _, _)
\* for idx, out in enumerate(tx.outputs): self.repo.add_utxo(...), from position i on
AddOutputs(us, tx, i) ==
    IF i > Len(tx.outputs) THEN us
    ELSE AddOutputs(AddUtxo(us, UTXO(tx.tx_id, i - 1, tx.outputs[i].amount, tx.outputs[i].address)),
                    tx, i + 1)

\* ApplyTx without the loop that removes the inputs
ApplyTxKeepInputs(us, tx) == AddOutputs(us, tx, 1)

\* the body of "for tx in transactions" for one transaction
ApplyTx(us, tx) == AddOutputs(RemoveInputs(us, tx, 1), tx, 1)

RECURSIVE ApplyTransactions(_, _)
\* for tx in transactions: ...
ApplyTransactions(us, transactions) ==
    IF transactions = <<>> THEN us
    ELSE ApplyTransactions(ApplyTx(us, transactions[1]), Tail(transactions))

\* the sealing engine a MiningService was built with: the ProofOfWorkAdapter, or an
\* engine swapped in for it whose mine raises
EngineMine(engine, header, d) ==
    IF engine = "raising" THEN Raises([type |-> "SealingError"])
    ELSE Returns(PowMine(header, d))

\* MineBlockCall with add_block called before the sealing step
MineBlockCallAppendFirst(bl, us, d, engine, malformed, transactions, validator, timestamp) ==
    LET block == CandidateBlock(bl, d, transactions, validator, timestamp)
        sealed == EngineMine(engine, block.header, d)
        mined == [block EXCEPT !.header = sealed.value.header]
    IN  IF malformed
        THEN [raised |-> TRUE, exc |-> [type |-> "AttributeError"], blocks |-> bl, utxo_set |-> us]
        ELSE IF sealed.raised
        THEN [raised |-> TRUE, exc |-> sealed.exc, blocks |-> AddBlock(bl, block), utxo_set |-> us]
        ELSE IF ~sealed.value.found THEN [raised |-> FALSE, found |-> FALSE]
        ELSE [raised |-> FALSE, found |-> TRUE, value |-> mined, digest |-> sealed.value.digest,
              blocks |-> AddBlock(bl, mined),
              utxo_set |-> ApplyTransactions(us, transactions)]

\* MiningService.mine_block: what it raises, or the block it returns and the store it
\* leaves.  malformed: the list holds an object calculate_merkle_root cannot hash, so
\* that the call raises before the sealing step.
MineBlockCall(bl, us, d, engine, malformed, transactions, validator, timestamp) ==
    LET block == CandidateBlock(bl, d, transactions, validator, timestamp)
        sealed == EngineMine(engine, block.header, d)
        mined == [block EXCEPT !.header = sealed.value.header]
    IN  IF malformed
        THEN [raised |-> TRUE, exc |-> [type |-> "AttributeError"], blocks |-> bl, utxo_set |-> us]
        ELSE IF sealed.raised
        THEN [raised |-> TRUE, exc |-> sealed.exc, blocks |-> bl, utxo_set |-> us]
        ELSE IF ~sealed.value.found THEN [raised |-> FALSE, found |-> FALSE]
        ELSE [raised |-> FALSE, found |-> TRUE, value |-> mined, digest |-> sealed.value.digest,
              blocks |-> AddBlock(bl, mined),
              utxo_set |-> ApplyTransactions(us, transactions)]

\* StakeBlockCall with the block built as MockProofOfStakeAdapter.stake_block builds it
\* (consensus.py:27-35): on the zero-filled prev_hash whatever the chain tip
StakeBlockCallAdapterBlock(bl, us, transactions, validator, timestamp) ==
    LET block == CandidateBlock(<<>>, 0, transactions, validator, timestamp)
    IN  [raised |-> FALSE, value |-> block,
         blocks |-> AddBlock(bl, block),
         utxo_set |-> ApplyTransactions(us, transactions)]

\* StakingService.stake_block
StakeBlockCall(bl, us, transactions, validator, timestamp) ==
    LET block == CandidateBlock(bl, 0, transactions, validator, timestamp)
    IN  [raised |-> FALSE, value |-> block,
         blocks |-> AddBlock(bl, block),
         utxo_set |-> ApplyTransactions(us, transactions)]

-----------------------------------------------------------------------------
(* The callers' inputs *)

AddrA == <<"a">>
AddrB == <<"b">>
AddrC == <<"c">>

Senders == {AddrA, AddrB}

OutputLists == {<<TxOut(60, AddrB), TxOut(40, AddrC)>>,
                <<TxOut(100, AddrB)>>,
                <<TxOut(120, AddrC)>>}

Secrets == {<<"e">>, <<"f">>}

Lookups == {[kind |-> "secret", secret |-> s] : s \in Secrets}
               \cup {[kind |-> "none"], [kind |-> "raises"]}

Validators == {<<"v">>}

Timestamps == {3}

Engines == {"pow", "raising"}

\* the UTXOs a store holds before the first call
Seed1 == UTXO(<<"g">>, 0, 100, AddrA)
Seed2 == UTXO(<<"g">>, 1, 50, AddrA)

InitialUtxoSets == {AddUtxo(AddUtxo(<<>>, Seed1), Seed2),
                    AddUtxo(AddUtxo(<<>>, Seed2), Seed1)}

\* A block's transactions list holds the callers' Transaction objects themselves; an
\* object is named by its tx_id, and Deref gives the objects a list of names refers to.
Deref(heap, refs) == [i \in 1..Len(refs) |-> CHOOSE t \in heap : t.tx_id = refs[i]]

\* the lists of Transaction objects a caller passes to mine_block / stake_block
TxLists ==
    LET ids == {t.tx_id : t \in txs}
    IN  {<<>>} \cup {<<a>> : a \in ids} \cup {<<p[1], p[2]>> : p \in {q \in ids \X ids : q[1] # q[2]}}

Idle == [pc |-> "idle"]

NoObs == [call |-> "none"]

-----------------------------------------------------------------------------
(* The single-threaded program: every call runs to its end *)

Init ==
    /\ blocks = <<>>
    /\ utxo_set \in InitialUtxoSets
    /\ difficulty = 1
    /\ txs = {}
    /\ result = [op |-> "init"]
    /\ writer = Idle
    /\ obs = NoObs

\* the caller keeps the transaction returned, unless it holds that transaction already
Hold(heap, tx) == IF \E t \in heap : t.tx_id = tx.tx_id THEN heap ELSE heap \cup {tx}

CreateTransaction(from_address, outputs) ==
    LET r == CreateTransactionCall(utxo_set, from_address, outputs)
    IN  /\ IF r.raised THEN TRUE ELSE Cardinality(Hold(txs, r.value)) <= MaxTxs
        /\ txs' = IF r.raised THEN txs ELSE Hold(txs, r.value)
        /\ result' = [op |-> "create_transaction", from_address |-> from_address,
                      outputs |-> outputs, out |-> r]
        /\ UNCHANGED <<blocks, utxo_set, difficulty, writer, obs>>

MineBlock(refs, validator, timestamp, engine, malformed) ==
    LET r == MineBlockCall(blocks, utxo_set, difficulty, engine, malformed, Deref(txs, refs),
                           validator, timestamp)
    IN  /\ Len(blocks) < MaxBlocks
        /\ IF r.raised THEN TRUE ELSE r.found
        /\ blocks' = IF r.raised THEN r.blocks
                     ELSE [r.blocks EXCEPT ![Len(r.blocks)].transactions = refs]
        /\ utxo_set' = r.utxo_set
        /\ result' = IF r.raised
                     THEN [op |-> "mine_block", raised |-> TRUE, exc |-> r.exc]
                     ELSE [op |-> "mine_block", transactions |-> refs, raised |-> FALSE,
                           digest |-> r.digest]
        /\ UNCHANGED <<difficulty, txs, writer, obs>>

StakeBlock(refs, validator, timestamp) ==
    LET r == StakeBlockCall(blocks, utxo_set, Deref(txs, refs), validator, timestamp)
    IN  /\ Len(blocks) < MaxBlocks
        /\ blocks' = [r.blocks EXCEPT ![Len(r.blocks)].transactions = refs]
        /\ utxo_set' = r.utxo_set
        /\ result' = [op |-> "stake_block", transactions |-> refs, raised |-> FALSE]
        /\ UNCHANGED <<difficulty, txs, writer, obs>>

Next ==
    \/ \E a \in Senders, outputs \in OutputLists : CreateTransaction(a, outputs)
    \/ \E refs \in TxLists, v \in Validators, t \in Timestamps, e \in Engines,
          malformed \in BOOLEAN :
           MineBlock(refs, v, t, e, malformed)
    \/ \E refs \in TxLists, v \in Validators, t \in Timestamps : StakeBlock(refs, v, t)

Spec == Init /\ [][Next]_vars

-----------------------------------------------------------------------------
(* The transaction service on its own: a wallet creates, signs and verifies *)

SignTransaction(t, wallet_priv) ==
    /\ txs' = (txs \ {t}) \cup {SignTransactionCall(wallet_priv, t)}
    /\ result' = [op |-> "sign_transaction", tx |-> t.tx_id, wallet_priv |-> wallet_priv,
                  before |-> t.signatures]
    /\ UNCHANGED <<blocks, utxo_set, difficulty, writer, obs>>

VerifyTransaction(t, lookup) ==
    /\ result' = [op |-> "verify_transaction", tx |-> t.tx_id, lookup |-> lookup,
                  out |-> VerifyTransactionCall(t, lookup)]
    /\ UNCHANGED <<blocks, utxo_set, difficulty, txs, writer, obs>>

NextTx ==
    \/ \E a \in Senders, outputs \in OutputLists : CreateTransaction(a, outputs)
    \/ \E t \in txs, s \in Secrets : SignTransaction(t, s)
    \/ \E t \in txs, lookup \in Lookups : VerifyTransaction(t, lookup)

SpecTx == Init /\ [][NextTx]_vars

-----------------------------------------------------------------------------
(* The proof-of-work adapter on its own: mine applied to a header *)

Difficulties == {1, 2}

\* the headers handed to mine: on the genesis parent or on a block, over an empty or a
\* one-leaf Merkle root, at several times, fresh or carrying a nonce already
PowHeaders ==
    {[version |-> 1, prev_hash |-> p, merkle_root |-> m, timestamp |-> t, nonce |-> n,
      difficulty |-> d, validator_id |-> v] :
        p \in {Zeros(64), Sha256(<<"1", ":", "0">>)},
        m \in {Sha256(<<>>), Sha256(<<"g", ":", "0", "|", "5", ".", "0", ":", "b">>)},
        t \in 0..7, n \in {0, 5}, d \in Difficulties, v \in Validators}

InitPow ==
    /\ blocks = <<>>
    /\ utxo_set = <<>>
    /\ txs = {}
    /\ writer = Idle
    /\ obs = NoObs
    /\ \E h \in PowHeaders :
           /\ difficulty = h.difficulty
           /\ result = [op |-> "header", header |-> h]

AdapterMine ==
    LET r == PowMine(result.header, difficulty)
    IN  /\ r.found
        /\ result' = [op |-> "mine", before |-> result.header, header |-> r.header,
                      digest |-> r.digest]
        /\ UNCHANGED <<blocks, utxo_set, difficulty, txs, writer, obs>>

NextPow == AdapterMine

SpecPow == InitPow /\ [][NextPow]_vars

-----------------------------------------------------------------------------
(* mine_block and stake_block beside a reader: the store has no lock, so another
   thread's read falls between any two store calls of a running mine_block *)

RECURSIVE StoreCalls(_)
\* the remove_utxo and add_utxo calls of the loops over transactions, in order
StoreCalls(transactions) ==
    IF transactions = <<>> THEN <<>>
    ELSE LET tx == transactions[1]
         IN  [i \in 1..Len(tx.inputs) |->
                 [call |-> "remove_utxo",
                  key |-> UtxoKey(tx.inputs[i].prev_tx_id, tx.inputs[i].output_index)]]
             \o [i \in 1..Len(tx.outputs) |->
                    [call |-> "add_utxo",
                     utxo |-> UTXO(tx.tx_id, i - 1, tx.outputs[i].amount, tx.outputs[i].address)]]
             \o StoreCalls(Tail(transactions))

\* WritePlan with the UTXO loops run before add_block
WritePlanEffectsFirst(transactions) == StoreCalls(transactions) \o <<[call |-> "add_block"]>>

\* the store calls mine_block and stake_block make once the block is built and sealed:
\* add_block, then the loops
WritePlan(transactions) == <<[call |-> "add_block"]>> \o StoreCalls(transactions)

\* mine_block up to the return of the sealing search
BeginMine(refs, validator, timestamp) ==
    LET block == CandidateBlock(blocks, difficulty, Deref(txs, refs), validator, timestamp)
        sealed == PowMine(block.header, difficulty)
    IN  /\ writer.pc = "idle"
        /\ Len(blocks) < MaxBlocks
        /\ sealed.found
        /\ writer' = [pc |-> "running", op |-> "mine_block",
                      block |-> [header |-> sealed.header, transactions |-> refs],
                      plan |-> WritePlan(Deref(txs, refs)),
                      entry |-> utxo_set]
        /\ UNCHANGED <<blocks, utxo_set, difficulty, txs, result, obs>>

\* stake_block up to the block built
BeginStake(refs, validator, timestamp) ==
    LET block == CandidateBlock(blocks, 0, Deref(txs, refs), validator, timestamp)
    IN  /\ writer.pc = "idle"
        /\ Len(blocks) < MaxBlocks
        /\ writer' = [pc |-> "running", op |-> "stake_block",
                      block |-> [header |-> block.header, transactions |-> refs],
                      plan |-> WritePlan(Deref(txs, refs)),
                      entry |-> utxo_set]
        /\ UNCHANGED <<blocks, utxo_set, difficulty, txs, result, obs>>

\* the next store call of the running mine_block / stake_block
WriterCall ==
    /\ writer.pc = "running"
    /\ writer.plan # <<>>
    /\ LET c == Head(writer.plan)
       IN  /\ blocks' = IF c.call = "add_block" THEN AddBlock(blocks, writer.block) ELSE blocks
           /\ utxo_set' = IF c.call = "remove_utxo" THEN RemoveUtxo(utxo_set, c.key)
                          ELSE IF c.call = "add_utxo" THEN AddUtxo(utxo_set, c.utxo)
                          ELSE utxo_set
    /\ writer' = [writer EXCEPT !.plan = Tail(writer.plan)]
    /\ UNCHANGED <<difficulty, txs, result, obs>>

\* return block
WriterReturn ==
    /\ writer.pc = "running"
    /\ writer.plan = <<>>
    /\ writer' = Idle
    /\ result' = [op |-> writer.op, transactions |-> writer.block.transactions,
                  raised |-> FALSE]
    /\ UNCHANGED <<blocks, utxo_set, difficulty, txs, obs>>

\* WalletService.get_balance
GetBalance(us, address) == SumAmounts(OwnedUtxos(us, address))

\* the reader asks for a balance
ReadBalance(address) ==
    /\ obs' = [call |-> "get_balance", address |-> address,
               value |-> GetBalance(utxo_set, address)]
    /\ UNCHANGED <<blocks, utxo_set, difficulty, txs, result, writer>>

\* the reader asks for the chain tip, and gets a block or None
ReadLatestBlock ==
    /\ obs' = [call |-> "get_latest_block", value |-> GetLatestBlock(blocks)]
    /\ UNCHANGED <<blocks, utxo_set, difficulty, txs, result, writer>>

NextConc ==
    \/ \E a \in Senders, outputs \in OutputLists : CreateTransaction(a, outputs)
    \/ \E refs \in TxLists, v \in Validators, t \in Timestamps : BeginMine(refs, v, t)
    \/ \E refs \in TxLists, v \in Validators, t \in Timestamps : BeginStake(refs, v, t)
    \/ WriterCall
    \/ WriterReturn
    \/ \E a \in {AddrB} : ReadBalance(a)
    \/ ReadLatestBlock

SpecConc == Init /\ [][NextConc]_vars

-----------------------------------------------------------------------------
(* Chain linkage *)

\* C1: the block at height 0 has the 64-character zero-filled prev_hash, and every
\* block at a height h > 0 has as prev_hash the header hash, taken over the sealed
\* header with its final nonce, of the block stored at height h - 1.
C1_ChainLinkage ==
    /\ blocks # <<>> => GetBlock(blocks, 0).header.prev_hash = Zeros(64)
    /\ \A h \in 1..(Len(blocks) - 1) :
           GetBlock(blocks, h).header.prev_hash = HeaderHash(GetBlock(blocks, h - 1).header)

\* a second block on top of a mined block whose sealing search went past nonce 0
C1_Witness ==
    /\ Len(blocks) = 2
    /\ blocks[1].header.difficulty = 1
    /\ blocks[1].header.nonce > 0
    /\ blocks[2].header.prev_hash # Zeros(64)

-----------------------------------------------------------------------------
(* UTXO effects of mine_block *)

\* the positions <<t, phase, i>> of the store calls a transaction list asks for, in the
\* order of the claim: transaction by transaction, the removals of its inputs (phase 0)
\* and then the insertions of its outputs (phase 1)
ClaimedCalls(transactions) ==
    UNION {{<<t, 0, i>> : i \in 1..Len(transactions[t].inputs)}
               \cup {<<t, 1, i>> : i \in 1..Len(transactions[t].outputs)} :
           t \in 1..Len(transactions)}

ClaimedKey(transactions, c) ==
    LET tx == transactions[c[1]]
    IN  IF c[2] = 0 THEN UtxoKey(tx.inputs[c[3]].prev_tx_id, tx.inputs[c[3]].output_index)
        ELSE UtxoKey(tx.tx_id, c[3] - 1)

Before(c, e) ==
    \/ c[1] < e[1]
    \/ c[1] = e[1] /\ c[2] < e[2]
    \/ c[1] = e[1] /\ c[2] = e[2] /\ c[3] < e[3]

\* post is pre after the claimed removals and insertions, in their order: a key no call
\* names is as before, and any other key is as the last call that names it leaves it
ClaimedEffects(pre, post, transactions) ==
    LET calls == ClaimedCalls(transactions)
        named == {ClaimedKey(transactions, c) : c \in calls}
        last(k) == CHOOSE c \in calls :
                       /\ ClaimedKey(transactions, c) = k
                       /\ \A e \in calls : ClaimedKey(transactions, e) = k => e = c \/ Before(e, c)
    IN  /\ Cardinality(KeySet(post)) = Len(post)
        /\ \A k \in (KeySet(pre) \cup KeySet(post)) \ named :
               k \in KeySet(pre) /\ k \in KeySet(post) /\ Lookup(post, k) = Lookup(pre, k)
        /\ \A k \in named :
               LET c == last(k)
                   tx == transactions[c[1]]
               IN  IF c[2] = 0 THEN k \notin KeySet(post)
                   ELSE /\ k \in KeySet(post)
                        /\ Lookup(post, k) = UTXO(tx.tx_id, c[3] - 1, tx.outputs[c[3]].amount,
                                                  tx.outputs[c[3]].address)

\* the case the claim spells out: one transaction that spends a live UTXO into (60, 40)
ClaimedSplit(pre, post, transactions) ==
    LET tx == transactions[1]
        spent == UtxoKey(tx.inputs[1].prev_tx_id, tx.inputs[1].output_index)
        made == {u \in {post[i].utxo : i \in 1..Len(post)} : u.tx_id = tx.tx_id}
    IN  (/\ Len(transactions) = 1
         /\ Len(tx.inputs) = 1
         /\ spent \in KeySet(pre)
         /\ Len(tx.outputs) = 2
         /\ tx.outputs[1].amount = 60
         /\ tx.outputs[2].amount = 40)
        => /\ spent \notin KeySet(post)
           /\ made = {UTXO(tx.tx_id, 0, 60, tx.outputs[1].address),
                      UTXO(tx.tx_id, 1, 40, tx.outputs[2].address)}
           /\ KeySet(post) \ KeySet(pre) \subseteq {UtxoKey(tx.tx_id, 0), UtxoKey(tx.tx_id, 1)}

\* C2: when mine_block returns, the UTXO set is the set before the call after, for each
\* transaction in list order, the removal of every input's key and then the insertion
\* of one UTXO (tx_id, i, amount_i, address_i) per output; a single transaction that
\* spends a live UTXO U into (60, 40) leaves U's key absent and exactly its two new
\* UTXOs, of 60 and 40, owned by the destination addresses.
C2_MineBlockEffects ==
    [][(result'.op = "mine_block" /\ ~result'.raised)
          => /\ ClaimedEffects(utxo_set, utxo_set', Deref(txs, result'.transactions))
             /\ ClaimedSplit(utxo_set, utxo_set', Deref(txs, result'.transactions))]_vars

\* mine_block has returned from mining, as the first block, one transaction that splits
\* the seed UTXO of 100 into 60 and 40
C2_Witness ==
    /\ result.op = "mine_block" /\ ~result.raised
    /\ Len(blocks) = 1
    /\ Len(result.transactions) = 1
    /\ LET tx == Deref(txs, result.transactions)[1]
       IN  /\ tx.inputs = <<TxIn(Seed1.tx_id, Seed1.output_index)>>
           /\ tx.outputs = <<TxOut(60, AddrB), TxOut(40, AddrC)>>
           /\ UtxoKey(Seed1.tx_id, Seed1.output_index) \notin KeySet(utxo_set)
           /\ UtxoKey(tx.tx_id, 1) \in KeySet(utxo_set)

-----------------------------------------------------------------------------
(* Conservation of value and double spending *)

RECURSIVE TotalValue(_)
\* the total amount over the live UTXOs of a store
TotalValue(us) == IF us = <<>> THEN 0 ELSE us[1].utxo.amount + TotalValue(Tail(us))

\* C3: with every mined transaction one that create_transaction returned, the total
\* amount over all live UTXOs never increases.
C3_ValueNeverIncreases == [][TotalValue(utxo_set') <= TotalValue(utxo_set)]_vars

\* the UTXO keys the inputs of the chain's transactions name, one per input: the block
\* at position h, its transaction at position t, that transaction's input at position i
ChainInputs ==
    UNION {UNION {{<<h, t, i>> : i \in 1..Len(Deref(txs, blocks[h].transactions)[t].inputs)} :
                  t \in 1..Len(blocks[h].transactions)} :
           h \in 1..Len(blocks)}

ChainInputKey(c) ==
    LET inp == Deref(txs, blocks[c[1]].transactions)[c[2]].inputs[c[3]]
    IN  UtxoKey(inp.prev_tx_id, inp.output_index)

\* C4: across all blocks appended by mine_block and stake_block, no UTXO key is named by
\* more than one transaction input of the chain, in one block or in different blocks.
C4_NoDoubleSpend ==
    \A c \in ChainInputs, e \in ChainInputs : ChainInputKey(c) = ChainInputKey(e) => c = e

-----------------------------------------------------------------------------
(* Failure of mine_block *)

\* C7: when the sealing step of mine_block raises, or a step before it does, the block
\* is not appended, and the block list and the UTXO set are as before the call.
C7_NoMutationOnFailure ==
    [][(result'.op = "mine_block" /\ result'.raised)
          => blocks' = blocks /\ utxo_set' = utxo_set]_vars

\* a mine_block call whose sealing step raised, on a store that holds a block, with
\* transactions at hand
C7_Witness ==
    /\ result.op = "mine_block" /\ result.raised
    /\ result.exc.type = "SealingError"
    /\ blocks # <<>>
    /\ txs # {}

-----------------------------------------------------------------------------
(* Insufficient funds *)

\* C8: create_transaction raises InsufficientFundsException with the address, required =
\* the sum of the output amounts, and available = 0 when the address owns no live UTXO,
\* or = the total of the UTXOs it owns when that total is below the sum; it then returns
\* no Transaction and leaves the store unchanged.
C8_InsufficientFunds ==
    [][result'.op = "create_transaction"
          => LET address == result'.from_address
                 owned == {i \in 1..Len(utxo_set) : utxo_set[i].utxo.owner_address = address}
                 total == TotalValue(SelectSeq(utxo_set,
                                               LAMBDA e : e.utxo.owner_address = address))
                 required == SumAmounts(result'.outputs)
             IN  (owned = {} \/ total < required)
                     => /\ result'.out.raised
                        /\ result'.out.exc =
                               [type |-> "InsufficientFundsException", address |-> address,
                                required |-> required,
                                available |-> IF owned = {} THEN 0 ELSE total]
                        /\ txs' = txs
                        /\ blocks' = blocks /\ utxo_set' = utxo_set]_vars

\* create_transaction has raised for an address whose UTXOs do not add up to the outputs
C8_Witness ==
    /\ result.op = "create_transaction"
    /\ result.out.raised
    /\ result.out.exc.available > 0
    /\ result.out.exc.available < result.out.exc.required

\* create_transaction has raised for an address that owns no UTXO
C8_WitnessNoUtxo ==
    /\ result.op = "create_transaction"
    /\ result.out.raised
    /\ result.out.exc.available = 0
    /\ \A i \in 1..Len(utxo_set) : utxo_set[i].utxo.owner_address # result.from_address

-----------------------------------------------------------------------------
(* Signing and verifying *)

\* the Transaction object a sign or verify call was about
Subject(r) == CHOOSE t \in txs : t.tx_id = r.tx

\* C9: immediately after sign_transaction(s, tx), verify_transaction(tx, lookup) returns
\* true when lookup returns s for every input, whatever signatures tx carried before
\* the call: signing overwrites them at every input index.
C9_SignVerifyRoundTrip ==
    [][/\ result'.op = "sign_transaction"
          => LET tx == Subject(result)'
                 lookup == [kind |-> "secret", secret |-> result'.wallet_priv]
             IN  /\ VerifyTransactionCall(tx, lookup) = Returns(TRUE)
                 /\ \A idx \in 0..(Len(tx.inputs) - 1) :
                        tx.signatures[idx] = Signature(result'.wallet_priv, TxHash(tx))
       /\ (/\ result.op = "sign_transaction"
           /\ result'.op = "verify_transaction"
           /\ result'.tx = result.tx
           /\ result'.lookup = [kind |-> "secret", secret |-> result.wallet_priv])
          => result'.out = Returns(TRUE)]_vars

\* a transaction with two inputs, signed with one secret, has been signed again with
\* another
C9_Witness ==
    /\ result.op = "sign_transaction"
    /\ Len(Subject(result).inputs) = 2
    /\ DOMAIN result.before = {0, 1}
    /\ result.before[0] # Subject(result).signatures[0]
    /\ result.before[1] # Subject(result).signatures[1]

-----------------------------------------------------------------------------
(* Proof-of-work sealing *)

\* the digest over (prev_hash, merkle_root, nonce, timestamp)
ClaimedDigest(header, nonce) ==
    Sha256(header.prev_hash \o header.merkle_root \o Str(nonce) \o Str(header.timestamp))

\* C10: when mine(header) with difficulty d >= 1 returns, the digest returned is the
\* digest over (prev_hash, merkle_root, nonce, timestamp) for nonce = header.nonce, its
\* hex form starts with d '0' characters, header.nonce is the smallest nonce >= 0 with
\* that property, and no header field other than nonce has changed.
C10_PowSealing ==
    (result.op = "mine" /\ difficulty >= 1)
        => /\ result.digest = ClaimedDigest(result.before, result.header.nonce)
           /\ StartsWith(result.digest, Zeros(difficulty))
           /\ result.header.nonce >= 0
           /\ \A n \in 0..(result.header.nonce - 1) :
                  ~StartsWith(ClaimedDigest(result.before, n), Zeros(difficulty))
           /\ result.header = [result.before EXCEPT !.nonce = result.header.nonce]

\* mine has returned at difficulty 2 after a search past nonce 16, on a header that
\* carried another nonce
C10_Witness ==
    /\ result.op = "mine"
    /\ difficulty = 2
    /\ result.header.nonce > 16
    /\ result.before.nonce # result.header.nonce

-----------------------------------------------------------------------------
(* What a reader beside mine_block / stake_block can see *)

\* the UTXO sets at the boundaries of the transactions of the running call: the set at
\* its entry with the first k transactions applied in full
Boundaries ==
    LET transactions == Deref(txs, writer.block.transactions)
    IN  {AllUtxos(ApplyTransactions(writer.entry, SubSeq(transactions, 1, k))) :
             k \in 0..Len(transactions)}

\* C5: a reader beside a running mine_block / stake_block never finds the store with
\* only part of one transaction's effects applied, and the block append and all its
\* UTXO mutations appear as one step: the reader finds the store as it was at the
\* call's entry, without the block, or as the call leaves it, with the block.
C5_AtomicToReaders ==
    writer.pc = "running"
        => /\ AllUtxos(utxo_set) \in Boundaries
           /\ \/ /\ GetLatestBlock(blocks) # writer.block
                 /\ utxo_set = writer.entry
              \/ /\ GetLatestBlock(blocks) = writer.block
                 /\ utxo_set = ApplyTransactions(writer.entry,
                                                 Deref(txs, writer.block.transactions))

\* C5, its first half alone: the store is never found with only part of one
\* transaction's effects applied.
C5_NoPartialTransaction == writer.pc = "running" => AllUtxos(utxo_set) \in Boundaries

\* C6: no UTXO is removed or added on behalf of a block until that block has been
\* appended: whenever the UTXO set changes, get_latest_block already returns the block
\* of the running call, and while it does not, the UTXO set is as at the call's entry.
C6_AppendBeforeEffects ==
    [][/\ utxo_set' # utxo_set
          => writer.pc = "running" /\ GetLatestBlock(blocks) = writer.block
       /\ (writer'.pc = "running" /\ GetLatestBlock(blocks') # writer'.block)
          => utxo_set' = writer'.entry]_vars

\* a mine_block in the middle of its UTXO loops: the block is the chain tip, some store
\* calls are done and some are left
C6_Witness ==
    /\ writer.pc = "running"
    /\ writer.op = "mine_block"
    /\ GetLatestBlock(blocks) = writer.block
    /\ utxo_set # writer.entry
    /\ writer.plan # <<>>

-----------------------------------------------------------------------------
(* The block list of the store *)

\* the heights get_block answers with a block: asked well outside the list on both sides
OccupiedHeights(bl) == {h \in -2..(Len(bl) + 2) : GetBlock(bl, h) # NoBlock}

\* C11: the blocks occupy the contiguous heights 0..n-1; every step leaves the block
\* list alone or appends one block at height n, and a mine_block / stake_block that
\* returns appends exactly one; get_block(h) keeps returning the same block for every
\* height occupied before; get_latest_block returns the block at height n-1, or nothing
\* when n = 0; get_block outside 0..n-1 returns nothing.
C11_AppendOnly ==
    [][LET n == Len(blocks)
           m == Len(blocks')
       IN  /\ OccupiedHeights(blocks') = 0..(m - 1)
           /\ m = n \/ m = n + 1
           /\ \A h \in 0..(n - 1) : GetBlock(blocks', h) = GetBlock(blocks, h)
           /\ (result'.op \in {"mine_block", "stake_block"} /\ ~result'.raised)
                 => /\ m = n + 1
                    /\ GetBlock(blocks', n) # NoBlock
                    /\ GetBlock(blocks', n).transactions = result'.transactions
                    /\ GetLatestBlock(blocks') = GetBlock(blocks', n)
           /\ GetLatestBlock(blocks') = IF m = 0 THEN NoBlock ELSE GetBlock(blocks', m - 1)
           /\ GetBlock(blocks', -1) = NoBlock /\ GetBlock(blocks', m) = NoBlock]_vars

\* stake_block has appended a second block, with a transaction, on top of a mined block
C11_Witness ==
    /\ result.op = "stake_block"
    /\ Len(blocks) = 2
    /\ blocks[1].header.difficulty = 1
    /\ blocks[2].transactions # <<>>
    /\ blocks[2] # blocks[1]

-----------------------------------------------------------------------------
(* Removal of consumed UTXOs *)

\* the keys the inputs of the chain's transactions name: each was live when
\* create_transaction selected it, and remove_utxo was called on it when the transaction
\* was mined or staked
ConsumedKeys == {ChainInputKey(c) : c \in ChainInputs}

\* C12: a UTXO key removed because a mined or staked transaction consumed it is never
\* live again, whatever create_transaction, mine_block and stake_block calls follow (a
\* transaction mined before may be mined again): when a call has returned, no key the
\* chain's transactions consumed is live, and a key live before and after a call keeps
\* its amount and its owner.
C12_PermanentRemoval ==
    [][/\ ConsumedKeys' \cap KeySet(utxo_set') = {}
       /\ \A k \in KeySet(utxo_set) \cap KeySet(utxo_set') :
              Lookup(utxo_set', k) = Lookup(utxo_set, k)]_vars

\* C12, its second half alone: a key live before and after a call keeps its amount and
\* its owner.
C12_NoChangeInPlace ==
    [][\A k \in KeySet(utxo_set) \cap KeySet(utxo_set') :
           Lookup(utxo_set', k) = Lookup(utxo_set, k)]_vars

-----------------------------------------------------------------------------
(* The store on its own: a caller adds and removes UTXOs and appends blocks *)

\* RemoveUtxoCall without the membership test: del self.utxo_set[utxo_key] on a key
\* that is absent raises KeyError
RemoveUtxoCallUnguarded(us, utxo_key) ==
    IF utxo_key \in KeySet(us)
    THEN [raised |-> FALSE, utxo_set |-> SelectSeq(us, LAMBDA e : e.key # utxo_key)]
    ELSE [raised |-> TRUE, exc |-> [type |-> "KeyError"], utxo_set |-> us]

\* a call of remove_utxo: it returns None, and the UTXO set it leaves
RemoveUtxoCall(us, utxo_key) == [raised |-> FALSE, utxo_set |-> RemoveUtxo(us, utxo_key)]

\* the UTXOs a caller hands to add_utxo: three keys, each with two amounts
StoreUtxos == {UTXO(<<"g">>, i, amount, AddrA) : i \in 0..2, amount \in {50, 100}}

\* the keys a caller hands to remove_utxo
StoreKeys == {UtxoKey(u.tx_id, u.output_index) : u \in StoreUtxos}

StoreAddUtxo(utxo) ==
    /\ utxo_set' = AddUtxo(utxo_set, utxo)
    /\ result' = [op |-> "add_utxo", utxo |-> utxo]
    /\ UNCHANGED <<blocks, difficulty, txs, writer, obs>>

StoreRemoveUtxo(utxo_key) ==
    LET r == RemoveUtxoCall(utxo_set, utxo_key)
    IN  /\ utxo_set' = r.utxo_set
        /\ result' = [op |-> "remove_utxo", utxo_key |-> utxo_key,
                      present |-> utxo_key \in KeySet(utxo_set), raised |-> r.raised]
        /\ UNCHANGED <<blocks, difficulty, txs, writer, obs>>

StoreAddBlock(validator, timestamp) ==
    /\ Len(blocks) < MaxBlocks
    /\ blocks' = AddBlock(blocks, CandidateBlock(blocks, 0, <<>>, validator, timestamp))
    /\ result' = [op |-> "add_block"]
    /\ UNCHANGED <<utxo_set, difficulty, txs, writer, obs>>

NextStore ==
    \/ \E u \in StoreUtxos : StoreAddUtxo(u)
    \/ \E k \in StoreKeys : StoreRemoveUtxo(k)
    \/ \E v \in Validators, t \in Timestamps : StoreAddBlock(v, t)

SpecStore == Init /\ [][NextStore]_vars

\* C13: remove_utxo(k) followed by remove_utxo(k) leaves the store as a single
\* remove_utxo(k) does; removing a key that is not present raises no error and changes
\* neither the UTXO set nor the block list.
C13_IdempotentRemoval ==
    [][/\ result'.op = "remove_utxo"
          => LET k == result'.utxo_key
             IN  /\ ~result'.raised
                 /\ blocks' = blocks
                 /\ k \notin KeySet(utxo_set) => utxo_set' = utxo_set
                 /\ RemoveUtxoCall(utxo_set', k) = [raised |-> FALSE, utxo_set |-> utxo_set']
       /\ (/\ result.op = "remove_utxo"
           /\ result'.op = "remove_utxo"
           /\ result'.utxo_key = result.utxo_key)
          => /\ utxo_set' = utxo_set
             /\ blocks' = blocks]_vars

\* remove_utxo has been called with a key that was not present, on a store that holds
\* other UTXOs and a block
C13_Witness ==
    /\ result.op = "remove_utxo"
    /\ ~result.present
    /\ ~result.raised
    /\ utxo_set # <<>>
    /\ blocks # <<>>

-----------------------------------------------------------------------------
(* Structural validity *)

\* the block stored at position h, with the Transaction objects its list holds
StoredBlock(h) == [header |-> blocks[h].header,
                   transactions |-> Deref(txs, blocks[h].transactions)]

\* C14: every block appended by mine_block or stake_block is structurally valid from
\* the moment add_block has appended it, through the UTXO loops, to the return of the
\* call: its header.merkle_root, in the sealed header, equals the Merkle root recomputed
\* over its transaction list (Block.verify() is true).
C14_StructuralValidity == \A h \in 1..Len(blocks) : BlockVerify(StoredBlock(h))

\* mine_block has just appended a block of two transactions, sealed past nonce 0, and
\* has not yet touched the UTXO set
C14_Witness ==
    /\ writer.pc = "running"
    /\ writer.op = "mine_block"
    /\ GetLatestBlock(blocks) = writer.block
    /\ Len(writer.block.transactions) = 2
    /\ writer.block.header.nonce > 0
    /\ writer.plan = StoreCalls(Deref(txs, writer.block.transactions))
    /\ utxo_set = writer.entry

-----------------------------------------------------------------------------
(* stake_block beside mine_block *)

\* C15: from the same store state, with the same transaction list and validator (and at
\* the same time), stake_block and mine_block leave the same UTXO set and the same chain
\* length, with a new block of the same prev_hash, merkle_root, transactions and
\* validator_id; the staked header has difficulty 0 and nonce 0.  Checked at every
\* mine_block and stake_block that returns: what the call left is what its own
\* definition gives, and the other call from the state before gives the same shape.
C15_StakeLikeMine ==
    [][(result'.op \in {"mine_block", "stake_block"} /\ ~result'.raised)
          => LET transactions == Deref(txs, result'.transactions)
                 new == blocks'[Len(blocks')]
                 v == new.header.validator_id
                 t == new.header.timestamp
             IN  \A mined \in {MineBlockCall(blocks, utxo_set, difficulty, "pow", FALSE,
                                             transactions, v, t)},
                    staked \in {StakeBlockCall(blocks, utxo_set, transactions, v, t)},
                    own \in {IF result'.op = "mine_block" THEN "mined" ELSE "staked"} :
                 /\ ~mined.raised /\ mined.found /\ ~staked.raised
                 /\ new.header = IF own = "mined" THEN mined.value.header
                                  ELSE staked.value.header
                 /\ utxo_set' = IF own = "mined" THEN mined.utxo_set ELSE staked.utxo_set
                 /\ mined.utxo_set = staked.utxo_set
                 /\ Len(mined.blocks) = Len(blocks) + 1
                 /\ Len(staked.blocks) = Len(blocks) + 1
                 /\ GetLatestBlock(mined.blocks) = mined.value
                 /\ GetLatestBlock(staked.blocks) = staked.value
                 /\ staked.value.header.prev_hash = mined.value.header.prev_hash
                 /\ staked.value.header.merkle_root = mined.value.header.merkle_root
                 /\ staked.value.header.validator_id = mined.value.header.validator_id
                 /\ staked.value.transactions = mined.value.transactions
                 /\ staked.value.header.difficulty = 0
                 /\ staked.value.header.nonce = 0
                 /\ staked.value.header =
                        [mined.value.header EXCEPT !.difficulty = 0, !.nonce = 0]]_vars

\* stake_block has returned from staking two transactions as the second block
C15_Witness ==
    /\ result.op = "stake_block"
    /\ Len(blocks) = 2
    /\ Len(result.transactions) = 2
    /\ blocks[2].header.difficulty = 0
    /\ blocks[2].header.prev_hash # Zeros(64)

-----------------------------------------------------------------------------
(* Block.calculate_merkle_root on its own: a caller builds blocks over the transactions
   it holds and asks for their Merkle roots *)

\* the two transactions of 100 that create_transaction returns for AddrA on a fresh store
MerkleTxs(us) ==
    {CreateTransactionCall(us, AddrA, o).value : o \in {p \in OutputLists : SumAmounts(p) = 100}}

RECURSIVE ListsUpTo(_, _)
\* the lists of at most n elements of a set
ListsUpTo(S, n) ==
    IF n = 0 THEN {<<>>}
    ELSE LET shorter == ListsUpTo(S, n - 1)
         IN  shorter \cup {Append(l, x) : l \in {k \in shorter : Len(k) = n - 1}, x \in S}

\* the transaction lists of the blocks the caller builds
MerkleLists == ListsUpTo({t.tx_id : t \in txs}, MaxLeaves)

InitMerkle ==
    /\ blocks = <<>>
    /\ utxo_set \in InitialUtxoSets
    /\ difficulty = 1
    /\ txs = MerkleTxs(utxo_set)
    /\ result = [op |-> "init"]
    /\ writer = Idle
    /\ obs = NoObs

\* Block(header, transactions).calculate_merkle_root(); the caller also remembers the
\* list and the root of the call before
CalculateMerkleRoot(refs) ==
    /\ result' = [op |-> "calculate_merkle_root", transactions |-> refs,
                  merkle_root |-> MerkleRoot(Deref(txs, refs)),
                  previous |-> IF result.op = "calculate_merkle_root"
                               THEN [transactions |-> result.transactions,
                                     merkle_root |-> result.merkle_root]
                               ELSE NoBlock]
    /\ UNCHANGED <<blocks, utxo_set, difficulty, txs, writer, obs>>

NextMerkle == \E refs \in MerkleLists : CalculateMerkleRoot(refs)

SpecMerkle == InitMerkle /\ [][NextMerkle]_vars

-----------------------------------------------------------------------------
(* Merkle roots *)

\* [t.calculate_hash() for t in transactions], for a list of transaction names
TxHashes(refs) == [i \in 1..Len(refs) |-> TxHash(Deref(txs, refs)[i])]

\* t holds the elements of s, each as many times, in any order
IsPermutation(s, t) ==
    /\ Len(s) = Len(t)
    /\ \A i \in 1..Len(s) :
           Cardinality({j \in 1..Len(s) : s[j] = s[i]})
               = Cardinality({j \in 1..Len(t) : t[j] = s[i]})

\* the two lists whose roots were computed last are two orders of one list
Reordered ==
    /\ result.op = "calculate_merkle_root"
    /\ result.previous # NoBlock
    /\ IsPermutation(result.previous.transactions, result.transactions)

\* C16: for a transaction list of at least two elements, a permutation that puts the
\* list in another order changes the Merkle root calculate_merkle_root computes; a list
\* of at most one element has one order only, and its root does not change.
C16_MerkleOrderSensitive ==
    Reordered
        => /\ (Len(result.transactions) >= 2
                  /\ TxHashes(result.transactions) # TxHashes(result.previous.transactions))
               => result.merkle_root # result.previous.merkle_root
           /\ Len(result.transactions) <= 1
               => result.merkle_root = result.previous.merkle_root

\* the roots of a list of three transactions, two of them the same, and of the same list
\* in another order have been computed
C16_Witness ==
    /\ Reordered
    /\ Len(result.transactions) = 3
    /\ Cardinality({result.transactions[i] : i \in 1..3}) = 2
    /\ result.transactions # result.previous.transactions
    /\ result.transactions[3] = result.previous.transactions[3]

-----------------------------------------------------------------------------
(* create_transaction on its own: stores that hold several owners' UTXOs, and output
   lists of any non-negative total *)

RECURSIVE StoreOf(_)
\* the store after add_utxo of each UTXO of a list, in order
StoreOf(utxos) ==
    IF utxos = <<>> THEN <<>>
    ELSE AddUtxo(StoreOf(SubSeq(utxos, 1, Len(utxos) - 1)), utxos[Len(utxos)])

\* the stores create_transaction is called on
CreateStores ==
    InitialUtxoSets
        \cup {StoreOf(<<UTXO(<<"1">>, 0, 30, AddrB), Seed1, UTXO(<<"1">>, 1, 70, AddrB), Seed2>>),
              StoreOf(<<Seed2, UTXO(<<"1">>, 0, 30, AddrB), UTXO(<<"1">>, 1, 20, AddrA), Seed1>>)}

\* the output lists create_transaction is called with: those of the ledger, an empty
\* list, an output of amount zero, a small one and one of all that AddrA owns
CreateOutputLists ==
    OutputLists \cup {<<>>, <<TxOut(0, AddrC)>>, <<TxOut(30, AddrC)>>, <<TxOut(150, AddrB)>>}

InitCreate ==
    /\ blocks = <<>>
    /\ utxo_set \in CreateStores
    /\ difficulty = 1
    /\ txs = {}
    /\ result = [op |-> "init"]
    /\ writer = Idle
    /\ obs = NoObs

NextCreate == \E a \in Senders, outputs \in CreateOutputLists : CreateTransaction(a, outputs)

SpecCreate == InitCreate /\ [][NextCreate]_vars

-----------------------------------------------------------------------------
(* Input selection *)

\* the sender's live UTXOs, in store-iteration order
LiveOwned(us, address) ==
    LET mine == SelectSeq(us, LAMBDA e : e.utxo.owner_address = address)
    IN  [i \in 1..Len(mine) |-> mine[i].utxo]

\* inputs is, in the same order, the prefix of n elements of utxos
IsPrefixOf(inputs, utxos) ==
    /\ Len(inputs) <= Len(utxos)
    /\ \A i \in 1..Len(inputs) :
           /\ inputs[i].prev_tx_id = utxos[i].tx_id
           /\ inputs[i].output_index = utxos[i].output_index

\* the total amount of the first n elements of utxos
PrefixTotal(utxos, n) == SumAmounts(SubSeq(utxos, 1, n))

\* C17: when create_transaction(from_address, outputs) succeeds, its inputs are, in the
\* same order, a prefix of the sender's live UTXOs in store-iteration order; the prefix
\* sums to at least the sum of the output amounts, and the prefix without its last
\* element sums to strictly less than the sum of the output amounts.
C17_GreedyFirstFit ==
    [][(result'.op = "create_transaction" /\ ~result'.out.raised)
          => LET owned == LiveOwned(utxo_set, result'.from_address)
                 inputs == result'.out.value.inputs
                 required == SumAmounts(result'.outputs)
             IN  /\ IsPrefixOf(inputs, owned)
                 /\ PrefixTotal(owned, Len(inputs)) >= required
                 /\ PrefixTotal(owned, Len(inputs) - 1) < required]_vars

\* C17 as amended: when create_transaction(from_address, outputs) succeeds, its inputs
\* are, in the same order, a non-empty prefix of the sender's live UTXOs in
\* store-iteration order; the prefix sums to at least the sum of the output amounts,
\* and the prefix without its last element is empty or sums to strictly less than the
\* sum of the output amounts (the first UTXO is taken whatever the requirement).
C17_GreedyFirstFitAmended ==
    [][(result'.op = "create_transaction" /\ ~result'.out.raised)
          => LET owned == LiveOwned(utxo_set, result'.from_address)
                 inputs == result'.out.value.inputs
                 required == SumAmounts(result'.outputs)
             IN  /\ IsPrefixOf(inputs, owned)
                 /\ Len(inputs) >= 1
                 /\ PrefixTotal(owned, Len(inputs)) >= required
                 /\ \/ Len(inputs) = 1
                    \/ PrefixTotal(owned, Len(inputs) - 1) < required]_vars

\* create_transaction has returned a transaction of two inputs, taken from a store that
\* holds another owner's UTXOs before and between the sender's
C17_Witness ==
    /\ result.op = "create_transaction"
    /\ ~result.out.raised
    /\ Len(result.out.value.inputs) = 2
    /\ Len(utxo_set) = 4
    /\ utxo_set[1].utxo.owner_address # result.from_address
    /\ utxo_set[3].utxo.owner_address # result.from_address

-----------------------------------------------------------------------------
(* Transaction.verify on its own: a caller holds one transaction, records signatures on
   it input by input or with sign_transaction, changes its inputs or outputs, and
   verifies it with callbacks that answer input by input *)

\* what a callback does for one input
Answers == {[kind |-> "secret", secret |-> s] : s \in Secrets}
               \cup {[kind |-> "none"], [kind |-> "raises"]}

\* the callbacks passed to verify_transaction: one answer per UTXO key
VerifyLookups ==
    {[kind |-> "by_key", answer |-> f] :
        f \in [{UtxoKey(Seed1.tx_id, Seed1.output_index),
                UtxoKey(Seed2.tx_id, Seed2.output_index)} -> Answers]}

InitVerify ==
    /\ blocks = <<>>
    /\ utxo_set \in InitialUtxoSets
    /\ difficulty = 1
    /\ \E o \in OutputLists : txs = {CreateTransactionCall(utxo_set, AddrA, o).value}
    /\ result = [op |-> "init"]
    /\ writer = Idle
    /\ obs = NoObs

\* tx.add_signature(idx, sha256(secret + tx.calculate_hash())): one input signed
AddSignatureAt(t, idx, secret) ==
    /\ txs' = (txs \ {t})
                 \cup {[t EXCEPT !.signatures =
                           AddSignature(t.signatures, idx, Signature(secret, TxHash(t)))]}
    /\ result' = [op |-> "add_signature", tx |-> t.tx_id]
    /\ UNCHANGED <<blocks, utxo_set, difficulty, writer, obs>>

\* the input lists a caller may put in the place of a transaction's inputs: none of
\* them, one of them, or all of them in reverse order
ChangedInputs(t) ==
    ({<<>>} \cup {<<t.inputs[i]>> : i \in 1..Len(t.inputs)}
         \cup {[i \in 1..Len(t.inputs) |-> t.inputs[Len(t.inputs) + 1 - i]]}) \ {t.inputs}

\* the caller assigns tx.inputs or tx.outputs of a transaction it holds, once; tx_id
\* keeps the value create_transaction gave it
ChangeTransaction(t, inputs, outputs) ==
    /\ TxHash(t) = t.tx_id
    /\ inputs # t.inputs \/ outputs # t.outputs
    /\ txs' = (txs \ {t}) \cup {[t EXCEPT !.inputs = inputs, !.outputs = outputs]}
    /\ result' = [op |-> "change", tx |-> t.tx_id]
    /\ UNCHANGED <<blocks, utxo_set, difficulty, writer, obs>>

NextVerify ==
    \/ \E t \in txs, s \in Secrets : SignTransaction(t, s)
    \/ \E t \in txs, s \in Secrets : \E idx \in 0..(Len(t.inputs) - 1) : AddSignatureAt(t, idx, s)
    \/ \E t \in txs : \E inputs \in ChangedInputs(t) : ChangeTransaction(t, inputs, t.outputs)
    \/ \E t \in txs : \E outputs \in OutputLists : ChangeTransaction(t, t.inputs, outputs)
    \/ \E t \in txs, lookup \in VerifyLookups : VerifyTransaction(t, lookup)

SpecVerify == InitVerify /\ [][NextVerify]_vars

-----------------------------------------------------------------------------
(* Verification rejects *)

\* some input index has no recorded signature
Unsigned(tx) == \E idx \in 0..(Len(tx.inputs) - 1) : idx \notin DOMAIN tx.signatures

\* the lookup yields no secret for some input
NoSecret(tx, lookup) == \E i \in 1..Len(tx.inputs) : Answer(lookup, tx.inputs[i]).kind = "none"

\* the signature recorded at some index differs from hash(secret + current canonical hash)
Mismatch(tx, lookup) ==
    \E i \in 1..Len(tx.inputs) :
        /\ (i - 1) \in DOMAIN tx.signatures
        /\ Answer(lookup, tx.inputs[i]).kind = "secret"
        /\ tx.signatures[i - 1] # Sha256(Answer(lookup, tx.inputs[i]).secret \o TxHash(tx))

\* the lookup raises for some input
LookupRaises(tx, lookup) ==
    \E i \in 1..Len(tx.inputs) : Answer(lookup, tx.inputs[i]).kind = "raises"

\* the transaction was signed as create_transaction returned it (tx_id is the hash it
\* had then) and its inputs or outputs were changed afterwards
ChangedAfterSigning(tx) ==
    /\ DOMAIN tx.signatures # {}
    /\ \A idx \in DOMAIN tx.signatures :
           \E s \in Secrets : tx.signatures[idx] = Signature(s, tx.tx_id)
    /\ TxHash(tx) # tx.tx_id

-----------------------------------------------------------------------------
(* The wallet's calls on one store: create_transaction, sign_transaction and
   verify_transaction, on stores that hold several owners' UTXOs *)

NextWallet ==
    \/ \E a \in Senders, outputs \in CreateOutputLists : CreateTransaction(a, outputs)
    \/ \E t \in txs, s \in Secrets : SignTransaction(t, s)
    \/ \E t \in txs, lookup \in Lookups : VerifyTransaction(t, lookup)

SpecWallet == InitCreate /\ [][NextWallet]_vars

-----------------------------------------------------------------------------
(* What create_transaction returns, and what the wallet's calls leave alone *)

\* the UTXO keys the inputs of a transaction reference, in input order
InputKeys(tx) ==
    [i \in 1..Len(tx.inputs) |-> UtxoKey(tx.inputs[i].prev_tx_id, tx.inputs[i].output_index)]

\* no value occurs twice in the sequence s
PairwiseDistinct(s) == \A i, j \in 1..Len(s) : i # j => s[i] # s[j]

\* one of the two sequences is a prefix of the other
OnePrefixesOther(s, t) ==
    \/ Len(s) <= Len(t) /\ s = SubSeq(t, 1, Len(s))
    \/ Len(t) <= Len(s) /\ t = SubSeq(s, 1, Len(t))

\* the transactions the caller holds that were created from the address: in a store
\* that no call writes, those whose first input is a UTXO of the address
CreatedFrom(address) ==
    {t \in txs : Lookup(utxo_set, InputKeys(t)[1]).owner_address = address}

-----------------------------------------------------------------------------
(* The Merkle root as a commitment to the transaction list *)

\* a block whose header carries the given root and that holds the listed transactions
BlockWithRoot(merkle_root, refs) ==
    [CandidateBlock(<<>>, 0, Deref(txs, refs), CHOOSE v \in Validators : TRUE,
                    CHOOSE t \in Timestamps : TRUE)
         EXCEPT !.header.merkle_root = merkle_root]

\* the roots of two lists were computed one after the other
TwoRoots ==
    /\ result.op = "calculate_merkle_root"
    /\ result.previous # NoBlock

\* C20: two transaction lists whose sequences of transaction hashes differ, in length or
\* in any position, have different Merkle roots, and Block.verify() on a header that
\* carries the root computed from one of them is false for the other.
C20_CommitmentIntegrity ==
    (TwoRoots /\ TxHashes(result.transactions) # TxHashes(result.previous.transactions))
        => /\ result.merkle_root # result.previous.merkle_root
           /\ ~BlockVerify(BlockWithRoot(result.previous.merkle_root, result.transactions))

\* C20 for lists of one length: two transaction lists of the same length whose
\* sequences of transaction hashes differ in some position have different Merkle roots,
\* and Block.verify() on a header that carries the root of one is false for the other.
C20_SameLengthCommitment ==
    (/\ TwoRoots
     /\ Len(result.transactions) = Len(result.previous.transactions)
     /\ TxHashes(result.transactions) # TxHashes(result.previous.transactions))
        => /\ result.merkle_root # result.previous.merkle_root
           /\ ~BlockVerify(BlockWithRoot(result.previous.merkle_root, result.transactions))

\* the two lists differ in their sequences of hashes and have one Merkle root
C20_SharedRoot ==
    /\ TwoRoots
    /\ TxHashes(result.transactions) # TxHashes(result.previous.transactions)
    /\ result.merkle_root = result.previous.merkle_root

====
